---- MODULE Spec2Model ----
(***************************************************************************)
(* State-machine model of the terminal storefront in src/1.cpp (orders     *)
(* appended to the text file orders.log and re-parsed on every view) and   *)
(* src/tempCodeRunnerFile.cpp (orders kept in the array orders[]).         *)
(*                                                                         *)
(* Money is held in cents, so that sums are exact.  Text written to the    *)
(* log is a sequence of lines, each line a sequence of tokens: a literal   *)
(* piece of text, or a decimal numeral with its integer part and the       *)
(* digits printed after the point.                                         *)
(***************************************************************************)
EXTENDS Integers, Sequences, FiniteSets, TLC

VARIABLES
    variant,        \* "file": src/1.cpp, "mem": src/tempCodeRunnerFile.cpp
    pc,             \* position of main: the prompt it blocks on, or the checkout step
    menuChoice,     \* main's local int choice of the menu iteration
    productId,      \* main's local int id of the add-product iteration
    exitCode,       \* what main has returned, Running until it returns
    cart,           \* ShoppingCart: [items, capacity]; count is Len(items)
    addMore,        \* main's local char addMore
    paymentChoice,  \* main's local paymentChoice, as read by getValidatedInput
    strategy,       \* main's local PaymentStrategy *strategy
    total,          \* main's local double total, in cents
    logFileOpen,    \* logFile.is_open() of the checkout in progress
    orders,         \* in-memory variant: the Order objects stored through orders[]
    orderCount,     \* in-memory variant: the global int orderCount
    nextOrderId,    \* in-memory variant: main's local nextOrderId
    file,           \* orders.log: [exists, lines]
    now,            \* the clock read by time(nullptr)
    out,            \* what the last step reported on the console
    viewed,         \* the orders the last step listed on the console
    checkouts,      \* history: one entry per checkout that reported success
    nAdds           \* history: number of addProduct calls made by main

vars == <<variant, pc, menuChoice, productId, exitCode, cart, addMore, paymentChoice, strategy, total, logFileOpen,
          orders, orderCount, nextOrderId, file, now, out, viewed, checkouts, nAdds>>

\* ---------------------------------------------------------------- bounds
MaxAdds == 2
MaxClock == 1
MaxBulkAdds == 11
MaxCartAdds == 4
MaxQuantity == 2
MaxManyAdds == 102

\* ------------------------------------------------------- program constants
productCount == 5
InitialCapacity == 10
OrdersCapacity == 100

\* ------------------------------------------------------------------ input
\* What getValidatedInput<int> finds on cin: a whole line holding an integer,
\* or anything else.
IntLine(n) == [fail |-> FALSE, value |-> n]
NonNumeric == [fail |-> TRUE, value |-> 0]
Unread == [fail |-> TRUE, value |-> -1]

getValidatedInput(inp) ==
    IF inp.fail THEN [threw |-> TRUE, value |-> 0]
    ELSE [threw |-> FALSE, value |-> inp.value]

toupper(ch) ==
    CASE ch = "y" -> "Y"
      [] ch = "n" -> "N"
      [] OTHER -> ch

\* ---------------------------------------------------------------- catalog
Product(id, name, price) == [id |-> id, name |-> name, price |-> price]

products ==
    << Product(1, "Laptop", 99999),
       Product(2, "Smartphone", 59999),
       Product(3, "Headphones", 9999),
       Product(4, "Mouse", 1999),
       Product(5, "Keyboard", 4999) >>

\* The lookup loop of main: the first product with the id, or none.
RECURSIVE FindProductFrom(_, _)
FindProductFrom(i, id) ==
    IF i > productCount THEN 0
    ELSE IF products[i].id = id THEN i
    ELSE FindProductFrom(i + 1, id)

selectedProductDefaultsToFirst(id) ==
    IF FindProductFrom(1, id) = 0 THEN 1 ELSE FindProductFrom(1, id)

selectedProduct(id) == FindProductFrom(1, id)

\* ------------------------------------------------------------------- cart
CartItem(product, quantity) == [product |-> product, quantity |-> quantity]

getTotalPrice(item) == item.product.price * item.quantity

NewCart == [items |-> <<>>, capacity |-> InitialCapacity]

count(c) == Len(c.items)

RECURSIVE FindLineFrom(_, _, _)
FindLineFrom(its, i, id) ==
    IF i > Len(its) THEN 0
    ELSE IF its[i].product.id = id THEN i
    ELSE FindLineFrom(its, i + 1, id)

addProductAlwaysAppends(c, product, quantity) ==
    [items |-> Append(c.items, CartItem(product, quantity)),
     capacity |-> IF count(c) = c.capacity THEN c.capacity * 2 ELSE c.capacity]

addProductOverwrites(c, product, quantity) ==
    LET i == FindLineFrom(c.items, 1, product.id) IN
    IF i # 0
    THEN [c EXCEPT !.items[i].quantity = quantity]
    ELSE [items |-> Append(c.items, CartItem(product, quantity)),
          capacity |-> IF count(c) = c.capacity THEN c.capacity * 2 ELSE c.capacity]

addProduct(c, product, quantity) ==
    LET i == FindLineFrom(c.items, 1, product.id) IN
    IF i # 0
    THEN [c EXCEPT !.items[i].quantity = c.items[i].quantity + quantity]
    ELSE [items |-> Append(c.items, CartItem(product, quantity)),
          capacity |-> IF count(c) = c.capacity THEN c.capacity * 2 ELSE c.capacity]

RECURSIVE SumFrom(_, _, _)
SumFrom(its, i, acc) ==
    IF i > Len(its) THEN acc
    ELSE SumFrom(its, i + 1, acc + getTotalPrice(its[i]))

getTotalAmountSkipsFirst(c) ==
    IF count(c) = 0 THEN [threw |-> TRUE, value |-> 0]
    ELSE [threw |-> FALSE, value |-> SumFrom(c.items, 2, 0)]

getTotalAmountZeroOnEmpty(c) ==
    [threw |-> FALSE, value |-> SumFrom(c.items, 1, 0)]

getTotalAmount(c) ==
    IF count(c) = 0 THEN [threw |-> TRUE, value |-> 0]
    ELSE [threw |-> FALSE, value |-> SumFrom(c.items, 1, 0)]

clearCart(c) == [c EXCEPT !.items = <<>>]

isEmptyAlwaysFalse(c) == FALSE

isEmpty(c) == count(c) = 0

\* ---------------------------------------------------------------- payment
NoStrategy == "nullptr"

getMethodName(s) ==
    CASE s = "CashPayment" -> "Cash"
      [] s = "CardPayment" -> "Credit/Debit Card"
      [] s = "GCashPayment" -> "GCash"

\* The switch of main: no default label, so any other value leaves nullptr.
SelectStrategy(choice) ==
    CASE choice = 1 -> "CashPayment"
      [] choice = 2 -> "CardPayment"
      [] choice = 3 -> "GCashPayment"
      [] OTHER -> NoStrategy

ConcreteStrategies == {"CashPayment", "CardPayment", "GCashPayment"}

\* ------------------------------------------------------------------- text
Lit(s) == [k |-> "lit", s |-> s, i |-> 0, f |-> <<>>]
Num(i, f) == [k |-> "num", s |-> "", i |-> i, f |-> f]

Tab == Lit("\t")
LogMarker == Lit("[LOG] -> Order ID: ")
HasBeen == Lit(" has been")
Using == Lit("using ")
Dot == Lit(".")
TotalMarker == Lit("Total Amount: $")

\* std::to_string(int)
to_string_int(n) == Num(n, <<>>)

\* std::to_string(double): "%f", six digits after the point.
to_string_double(cents) ==
    Num(cents \div 100, << (cents % 100) \div 10, cents % 10, 0, 0, 0, 0 >>)

RECURSIVE StripZeros(_)
StripZeros(ds) ==
    IF ds = <<>> THEN ds
    ELSE IF ds[Len(ds)] = 0 THEN StripZeros(SubSeq(ds, 1, Len(ds) - 1))
    ELSE ds

\* ostream << double on a fresh stream: "%g" with six significant digits,
\* trailing zeros removed.  Amounts from 1,000,000.00 up print with an
\* exponent.
StreamDouble(cents) ==
    IF cents < 1000000
    THEN Num(cents \div 100, StripZeros(<< (cents % 100) \div 10, cents % 10 >>))
    ELSE IF cents < 10000000
    THEN LET tenths == (cents + 5) \div 10
         IN  Num(tenths \div 10, StripZeros(<< tenths % 10 >>))
    ELSE IF cents < 100000000
    THEN Num((cents + 50) \div 100, <<>>)
    ELSE Lit("e+")

MakeOrderIdWithoutClock(t) == << Lit("ORD") >>

\* "ORD" + to_string(now)
MakeOrderId(t) == << Lit("ORD"), to_string_int(t) >>

ItemLine(item) ==
    << to_string_int(item.product.id), Tab, Lit(item.product.name), Tab,
       to_string_double(item.product.price), Tab, to_string_int(item.quantity) >>

\* The lines of the string getCartContents returns.
getCartContents(c) == [i \in 1..count(c) |-> ItemLine(c.items[i])]

HeaderLine(orderId, methodName) ==
    << LogMarker >> \o orderId \o
    << HasBeen, Lit(" successfully checked out and paid "), Using,
       Lit(methodName), Dot >>

TotalLine(amount) == << TotalMarker, StreamDouble(amount) >>

\* The lines the checkout writes to orders.log for one order.
LogBlock(orderId, methodName, c, amount) ==
    << HeaderLine(orderId, methodName) >> \o getCartContents(c) \o
    << TotalLine(amount), <<>> >>

\* string::find of a piece of text from a position: its index, or 0 (npos).
RECURSIVE Find(_, _, _)
Find(line, tok, from) ==
    IF from > Len(line) THEN 0
    ELSE IF line[from] = tok THEN from
    ELSE Find(line, tok, from + 1)

\* string::substr(first, last - first): to the end of the line when the
\* length wraps around.
Substr(line, first, last) ==
    IF last = 0 \/ last < first THEN SubSeq(line, first, Len(line))
    ELSE SubSeq(line, first, last - 1)

\* The inner loop of viewOrders: lines are consumed up to and including the
\* first empty one; a line with three tabs is shown as a product.
RECURSIVE ReadProducts(_, _, _)
ReadProducts(lines, j, acc) ==
    IF j > Len(lines) THEN [stop |-> j, eof |-> TRUE, items |-> acc]
    ELSE IF lines[j] = <<>> THEN [stop |-> j, eof |-> FALSE, items |-> acc]
    ELSE LET line == lines[j]
             tab1 == Find(line, Tab, 1)
             tab2 == Find(line, Tab, tab1 + 1)
             tab3 == Find(line, Tab, tab2 + 1)
         IN  IF tab1 # 0 /\ tab2 # 0 /\ tab3 # 0
             THEN ReadProducts(lines, j + 1,
                      Append(acc, [id |-> SubSeq(line, 1, tab1 - 1),
                                   name |-> SubSeq(line, tab1 + 1, tab2 - 1),
                                   price |-> SubSeq(line, tab2 + 1, tab3 - 1),
                                   qty |-> SubSeq(line, tab3 + 1, Len(line))]))
             ELSE ReadProducts(lines, j + 1, acc)

\* The outer loop of viewOrders over the lines of the file.
RECURSIVE ReadOrders(_, _, _)
ReadOrders(lines, i, acc) ==
    IF i > Len(lines) THEN acc
    ELSE IF Find(lines[i], LogMarker, 1) = 0 THEN ReadOrders(lines, i + 1, acc)
    ELSE LET line == lines[i]
             idStart == Find(line, LogMarker, 1) + 1
             idEnd == Find(line, HasBeen, 1)
             methodStart == Find(line, Using, 1) + 1
             methodEnd == Find(line, Dot, 1)
             body == ReadProducts(lines, i + 1, <<>>)
             after == body.stop + 1
             hasTotal == /\ ~body.eof
                         /\ after <= Len(lines)
                         /\ Find(lines[after], TotalMarker, 1) # 0
             shown == [orderId |-> Substr(line, idStart, idEnd),
                       paymentMethod |-> Substr(line, methodStart, methodEnd),
                       lines |-> body.items,
                       total |-> IF hasTotal THEN lines[after] ELSE <<>>]
         IN  ReadOrders(lines, after + 1, Append(acc, shown))

NoFile == [exists |-> FALSE, lines |-> <<>>]

viewOrdersFileSkipsCheck(f) ==
    IF ~f.exists THEN [threw |-> TRUE, shown |-> <<>>]
    ELSE [threw |-> FALSE, shown |-> ReadOrders(f.lines, 1, <<>>)]

viewOrdersFile(f) ==
    IF ~f.exists THEN [threw |-> TRUE, shown |-> <<>>]
    ELSE LET shown == ReadOrders(f.lines, 1, <<>>)
         IN  [threw |-> shown = <<>>, shown |-> shown]

\* -------------------------------------------------- in-memory order list
\* Order::Order: the cart's items are copied one by one.
Order(id, method, cartItems, n, amount) ==
    [orderId |-> id, paymentMethod |-> method,
     items |-> [i \in 1..n |-> cartItems[i]],
     itemCount |-> n, totalAmount |-> amount]

\* Order::display: price and total are cast to int.
display(o) ==
    [orderId |-> o.orderId, paymentMethod |-> o.paymentMethod,
     lines |-> [i \in 1..o.itemCount |->
                  [id |-> o.items[i].product.id,
                   name |-> o.items[i].product.name,
                   price |-> o.items[i].product.price \div 100,
                   qty |-> o.items[i].quantity]],
     total |-> o.totalAmount \div 100]

viewOrdersMem ==
    IF orderCount = 0 THEN [threw |-> TRUE, shown |-> <<>>]
    ELSE [threw |-> FALSE, shown |-> [i \in 1..orderCount |-> display(orders[i])]]

\* ----------------------------------------------------------------- state
Undef == "undef"
Running == -1
Clobbered == -1

Locals == <<addMore, paymentChoice, strategy, total, logFileOpen>>
Store == <<cart, orders, orderCount, nextOrderId, file, checkouts, nAdds>>

ResetLocals ==
    /\ addMore' = Undef
    /\ paymentChoice' = Unread
    /\ strategy' = NoStrategy
    /\ total' = 0
    /\ logFileOpen' = FALSE

Init ==
    /\ \/ variant = "mem" /\ file = NoFile
       \/ variant = "file" /\ file \in {NoFile, [exists |-> TRUE, lines |-> <<>>]}
    /\ pc = "menu"
    /\ menuChoice = Unread
    /\ productId = Unread
    /\ exitCode = Running
    /\ cart = NewCart
    /\ addMore = Undef
    /\ paymentChoice = Unread
    /\ strategy = NoStrategy
    /\ total = 0
    /\ logFileOpen = FALSE
    /\ orders = <<>>
    /\ orderCount = 0
    /\ nextOrderId = 1
    /\ now = 0
    /\ out = "start"
    /\ viewed = <<>>
    /\ checkouts = <<>>
    /\ nAdds = 0

\* ------------------------------------------------------------- main menu
\* The menu choice is not a number, or not one of 1..4: reported, menu again.
MenuInvalid(inp) ==
    /\ pc = "menu"
    /\ LET r == getValidatedInput(inp) IN
       /\ r.threw \/ r.value < 1 \/ r.value > 4
       /\ out' = IF r.threw THEN "Error: Invalid input. Please enter a valid number."
                 ELSE "Error: Invalid menu choice. Please select 1-4."
    /\ menuChoice' = inp
    /\ productId' = Unread
    /\ viewed' = <<>>
    /\ UNCHANGED <<variant, pc, exitCode, now, Store, Locals>>

\* choice == 1: the product list is shown and the id prompt follows.
ViewProducts ==
    /\ pc = "menu"
    /\ menuChoice' = IntLine(1)
    /\ pc' = "addPrompt"
    /\ addMore' = Undef
    /\ productId' = Unread
    /\ out' = "Available Products"
    /\ viewed' = <<>>
    /\ UNCHANGED <<variant, exitCode, now, Store, paymentChoice, strategy, total, logFileOpen>>

\* choice == 2: displayCart, then the checkout prompt if the cart has lines.
ViewCart ==
    /\ pc = "menu"
    /\ menuChoice' = IntLine(2)
    /\ productId' = Unread
    /\ IF isEmpty(cart)
       THEN pc' = "menu" /\ out' = "Your shopping cart is empty."
       ELSE pc' = "checkoutPrompt" /\ out' = "Shopping Cart"
    /\ viewed' = <<>>
    /\ UNCHANGED <<variant, exitCode, now, Store, Locals>>

\* choice == 3: viewOrders; NoOrdersException is caught and reported.
ViewOrders ==
    /\ pc = "menu"
    /\ menuChoice' = IntLine(3)
    /\ productId' = Unread
    /\ LET r == IF variant = "file" THEN viewOrdersFile(file) ELSE viewOrdersMem IN
       /\ out' = IF r.threw THEN "Error: No orders found" ELSE "Order History"
       /\ viewed' = r.shown
    /\ UNCHANGED <<variant, pc, exitCode, now, Store, Locals>>

ExitKeepsLooping ==
    /\ pc = "menu"
    /\ menuChoice' = IntLine(4)
    /\ productId' = Unread
    /\ out' = "Thank you for shopping with us!"
    /\ viewed' = <<>>
    /\ UNCHANGED <<variant, pc, exitCode, now, Store, Locals>>

\* choice == 4: break, the cleanup loops and return 0.
Exit ==
    /\ pc = "menu"
    /\ menuChoice' = IntLine(4)
    /\ productId' = Unread
    /\ pc' = "exited"
    /\ exitCode' = 0
    /\ out' = "Thank you for shopping with us!"
    /\ viewed' = <<>>
    /\ UNCHANGED <<variant, now, Store, Locals>>

\* ------------------------------------------------------ add-product loop
\* The id is not a number or not in the catalog: `continue` jumps to the
\* loop condition, which reads addMore; before the first answer of the loop
\* addMore holds no value and the test may go either way.
RejectProductId(inp) ==
    /\ pc = "addPrompt"
    /\ LET r == getValidatedInput(inp) IN
       /\ r.threw \/ selectedProduct(r.value) = 0
       /\ out' = IF r.threw THEN "Error: Invalid input. Please enter a valid number."
                 ELSE "Error: Invalid product ID"
    /\ productId' = inp
    /\ \/ addMore = Undef /\ pc' = "addPrompt" /\ UNCHANGED <<addMore, menuChoice>>
       \/ addMore = Undef /\ pc' = "menu" /\ menuChoice' = Unread /\ UNCHANGED addMore
       \/ addMore = "Y" /\ pc' = "addPrompt" /\ UNCHANGED <<addMore, menuChoice>>
    /\ viewed' = <<>>
    /\ UNCHANGED <<variant, exitCode, now, Store, paymentChoice, strategy, total, logFileOpen>>

\* The id is in the catalog: addProduct with the default quantity.
AddToCart(inp) ==
    /\ pc = "addPrompt"
    /\ LET r == getValidatedInput(inp) IN
       /\ ~r.threw
       /\ selectedProduct(r.value) # 0
       /\ cart' = addProduct(cart, products[selectedProduct(r.value)], 1)
    /\ productId' = inp
    /\ nAdds' = nAdds + 1
    /\ pc' = "addMorePrompt"
    /\ out' = "Product added successfully!"
    /\ viewed' = <<>>
    /\ UNCHANGED <<variant, menuChoice, exitCode, now, orders, orderCount, nextOrderId, file, checkouts,
                   Locals>>

\* The Y/N answer and the loop condition.  src/1.cpp turns any other answer
\* into 'N' with an error; src/tempCodeRunnerFile.cpp takes it as it is.
AnswerAddMore(ch) ==
    /\ pc = "addMorePrompt"
    /\ LET u == toupper(ch)
           bad == variant = "file" /\ u # "Y" /\ u # "N"
           answer == IF bad THEN "N" ELSE u
       IN  /\ out' = IF bad THEN "Error: Please enter Y or N." ELSE "none"
           /\ IF answer = "Y"
              THEN pc' = "addPrompt" /\ addMore' = "Y" /\ UNCHANGED menuChoice
              ELSE pc' = "menu" /\ addMore' = Undef /\ menuChoice' = Unread
    /\ productId' = Unread
    /\ viewed' = <<>>
    /\ UNCHANGED <<variant, exitCode, now, Store, paymentChoice, strategy, total, logFileOpen>>

\* --------------------------------------------------------------- checkout
AnswerCheckout(ch) ==
    /\ pc = "checkoutPrompt"
    /\ LET u == toupper(ch)
           bad == variant = "file" /\ u # "Y" /\ u # "N"
       IN  /\ out' = IF bad THEN "Error: Please enter Y or N."
                     ELSE IF u = "Y" THEN "Select payment method" ELSE "none"
           /\ pc' = IF u = "Y" THEN "paymentPrompt" ELSE "menu"
           /\ menuChoice' = IF u = "Y" THEN menuChoice ELSE Unread
    /\ viewed' = <<>>
    /\ UNCHANGED <<variant, productId, exitCode, now, Store, Locals>>

\* The payment prompt did not yield a usable choice: reported, menu again.
\* Only src/1.cpp checks the range.
RejectPayment(inp) ==
    /\ pc = "paymentPrompt"
    /\ LET r == getValidatedInput(inp) IN
       /\ r.threw \/ (variant = "file" /\ (r.value < 1 \/ r.value > 3))
       /\ out' = IF r.threw THEN "Error: Invalid input. Please enter a valid number."
                 ELSE "Error: Invalid payment method. Please select 1-3."
    /\ pc' = "menu"
    /\ menuChoice' = Unread
    /\ viewed' = <<>>
    /\ UNCHANGED <<variant, productId, exitCode, now, Store, Locals>>

\* The strategy switch and cart->getTotalAmount().
SelectPayment(inp) ==
    /\ pc = "paymentPrompt"
    /\ LET r == getValidatedInput(inp)
           t == getTotalAmount(cart)
       IN  /\ ~r.threw
           /\ variant = "file" => (r.value >= 1 /\ r.value <= 3)
           /\ paymentChoice' = inp
           /\ IF t.threw
              THEN /\ pc' = "menu"
                   /\ menuChoice' = Unread
                   /\ out' = "Error: Shopping cart is empty"
                   /\ strategy' = NoStrategy
                   /\ total' = 0
              ELSE /\ pc' = "pay"
                   /\ UNCHANGED menuChoice
                   /\ out' = "none"
                   /\ strategy' = SelectStrategy(r.value)
                   /\ total' = t.value
    /\ viewed' = <<>>
    /\ UNCHANGED <<variant, productId, exitCode, now, Store, addMore, logFileOpen>>

\* strategy->pay(total): a no-op on a payment object.
Pay ==
    /\ pc = "pay"
    /\ strategy # NoStrategy
    /\ pc' = "append"
    /\ out' = "none"
    /\ viewed' = <<>>
    /\ UNCHANGED <<variant, menuChoice, productId, exitCode, now, Store, Locals>>

\* strategy->pay(total) through a null pointer: the call is undefined; the
\* process is killed, or the call lands in some payment class.
PayThroughNull ==
    /\ pc = "pay"
    /\ strategy = NoStrategy
    /\ \/ pc' = "crashed" /\ UNCHANGED strategy
       \/ pc' = "append" /\ strategy' \in ConcreteStrategies
    /\ out' = "none"
    /\ viewed' = <<>>
    /\ UNCHANGED <<variant, menuChoice, productId, exitCode, now, Store, addMore, paymentChoice,
                   total, logFileOpen>>

\* src/1.cpp: the order id from the clock, the block appended to orders.log
\* if the file opens, and the success message either way.
AppendToLogFile(opens) ==
    /\ pc = "append"
    /\ variant = "file"
    /\ logFileOpen' = opens
    /\ file' = IF opens
               THEN [exists |-> TRUE,
                     lines |-> file.lines \o
                               LogBlock(MakeOrderId(now), getMethodName(strategy),
                                        cart, total)]
               ELSE file
    /\ checkouts' = Append(checkouts,
                           [id |-> MakeOrderId(now), choice |-> paymentChoice.value,
                            items |-> cart.items, total |-> total, logged |-> opens,
                            at |-> now])
    /\ pc' = "clear"
    /\ out' = "You have successfully checked out the products!"
    /\ viewed' = <<>>
    /\ UNCHANGED <<variant, menuChoice, productId, exitCode, now, cart, orders, orderCount, nextOrderId,
                   nAdds,
                   addMore, paymentChoice, strategy, total>>

AppendToOrdersKeepsId ==
    /\ pc = "append"
    /\ variant = "mem"
    /\ orderCount \in 0..(OrdersCapacity - 1)
    /\ orderCount' = orderCount + 1
    /\ orders' = Append(orders,
                        Order(nextOrderId, getMethodName(strategy), cart.items,
                              count(cart), total))
    /\ nextOrderId' = nextOrderId
    /\ checkouts' = Append(checkouts,
                           [id |-> nextOrderId, choice |-> paymentChoice.value,
                            items |-> cart.items, total |-> total, logged |-> TRUE,
                            at |-> now])
    /\ pc' = "clear"
    /\ out' = "You have successfully checked out the products!"
    /\ viewed' = <<>>
    /\ UNCHANGED <<variant, menuChoice, productId, exitCode, now, cart, file, nAdds, Locals>>

\* src/tempCodeRunnerFile.cpp: orders[orderCount++] = new Order(nextOrderId++, ...)
AppendToOrders ==
    /\ pc = "append"
    /\ variant = "mem"
    /\ orderCount \in 0..(OrdersCapacity - 1)
    /\ orderCount' = orderCount + 1
    /\ orders' = Append(orders,
                        Order(nextOrderId, getMethodName(strategy), cart.items,
                              count(cart), total))
    /\ nextOrderId' = nextOrderId + 1
    /\ checkouts' = Append(checkouts,
                           [id |-> nextOrderId, choice |-> paymentChoice.value,
                            items |-> cart.items, total |-> total, logged |-> TRUE,
                            at |-> now])
    /\ pc' = "clear"
    /\ out' = "You have successfully checked out the products!"
    /\ viewed' = <<>>
    /\ UNCHANGED <<variant, menuChoice, productId, exitCode, now, cart, file, nAdds, Locals>>

\* The same statement with orderCount outside 0..99: the store goes past
\* orders[], which is undefined.  The process is killed; or, at index 100,
\* it carries on with the order stored behind the array, orderCount either
\* counted up or overwritten by the store (the int that follows the array).
AppendPastOrders ==
    /\ pc = "append"
    /\ variant = "mem"
    /\ orderCount \notin 0..(OrdersCapacity - 1)
    /\ \/ /\ pc' = "crashed"
          /\ out' = "none"
          /\ UNCHANGED <<orders, orderCount, nextOrderId, checkouts>>
       \/ /\ orderCount = OrdersCapacity
          /\ orderCount' \in {orderCount + 1, Clobbered}
          /\ orders' = Append(orders,
                              Order(nextOrderId, getMethodName(strategy), cart.items,
                                    count(cart), total))
          /\ nextOrderId' = nextOrderId + 1
          /\ checkouts' = Append(checkouts,
                                 [id |-> nextOrderId, choice |-> paymentChoice.value,
                                  items |-> cart.items, total |-> total, logged |-> TRUE,
                                  at |-> now])
          /\ pc' = "clear"
          /\ out' = "You have successfully checked out the products!"
    /\ viewed' = <<>>
    /\ UNCHANGED <<variant, menuChoice, productId, exitCode, now, cart, file, nAdds, Locals>>

CheckoutClearSharedItems ==
    /\ pc = "clear"
    /\ cart' = clearCart(cart)
    /\ orders' = IF orders = <<>> THEN orders
                 ELSE [orders EXCEPT ![Len(orders)].items = <<>>]
    /\ ResetLocals
    /\ pc' = "menu"
    /\ menuChoice' = Unread
    /\ out' = "none"
    /\ viewed' = <<>>
    /\ UNCHANGED <<variant, productId, exitCode, now, orderCount, nextOrderId, file,
                   checkouts, nAdds>>

\* cart->clearCart(); delete strategy; and back to the menu.
CheckoutClear ==
    /\ pc = "clear"
    /\ cart' = clearCart(cart)
    /\ ResetLocals
    /\ pc' = "menu"
    /\ menuChoice' = Unread
    /\ out' = "none"
    /\ viewed' = <<>>
    /\ UNCHANGED <<variant, productId, exitCode, now, orders, orderCount, nextOrderId, file,
                   checkouts, nAdds>>

\* A second passes on the clock that time(nullptr) reads.  Only the checkout
\* of src/1.cpp reads the clock, so it is advanced between menu iterations.
Tick ==
    /\ variant = "file"
    /\ pc = "menu"
    /\ now' = now + 1
    /\ UNCHANGED <<variant, pc, menuChoice, productId, exitCode, Store, Locals, out, viewed>>

\* ----------------------------------------------------------- input sets
MenuInputs == {NonNumeric, IntLine(5)}
ProductIdInputs == {NonNumeric, IntLine(0), IntLine(1), IntLine(3)}
PaymentInputs == {NonNumeric, IntLine(1), IntLine(2), IntLine(3), IntLine(4)}
CharInputs == {"Y", "y", "N", "x"}

Next ==
    \/ \E inp \in MenuInputs : MenuInvalid(inp)
    \/ ViewProducts
    \/ ViewCart
    \/ ViewOrders
    \/ Exit
    \/ \E inp \in ProductIdInputs : RejectProductId(inp)
    \/ \E inp \in ProductIdInputs : nAdds < MaxAdds /\ AddToCart(inp)
    \/ \E ch \in CharInputs : AnswerAddMore(ch)
    \/ \E ch \in CharInputs : AnswerCheckout(ch)
    \/ \E inp \in PaymentInputs : RejectPayment(inp)
    \/ \E inp \in PaymentInputs : SelectPayment(inp)
    \/ Pay
    \/ PayThroughNull
    \/ \E opens \in BOOLEAN : AppendToLogFile(opens)
    \/ AppendToOrders
    \/ CheckoutClear
    \/ now < MaxClock /\ Tick

Spec == Init /\ [][Next]_vars

\* A run that buys one product over and over and pays cash, so that large
\* quantities and totals are reached.
NextBulk ==
    \/ ViewProducts
    \/ ViewCart
    \/ ViewOrders
    \/ nAdds < MaxBulkAdds /\ AddToCart(IntLine(1))
    \/ \E ch \in {"Y", "N"} : AnswerAddMore(ch)
    \/ AnswerCheckout("Y")
    \/ SelectPayment(IntLine(1))
    \/ Pay
    \/ AppendToLogFile(TRUE)
    \/ AppendToOrders
    \/ CheckoutClear

SpecBulk == Init /\ [][NextBulk]_vars

\* A run that only fills the cart, with every product of the catalog.
CatalogInputs == {IntLine(n) : n \in 1..productCount}

NextCart ==
    \/ ViewProducts
    \/ ViewCart
    \/ \E inp \in {IntLine(6)} : RejectProductId(inp)
    \/ \E inp \in CatalogInputs : nAdds < MaxCartAdds /\ AddToCart(inp)
    \/ \E ch \in {"Y", "N"} : AnswerAddMore(ch)
    \/ AnswerCheckout("N")

SpecCart == Init /\ [][NextCart]_vars

\* A run of the orders[] variant that checks out one product at a time, so
\* that the order storage fills up.
InitMem == Init /\ variant = "mem"

NextMany ==
    \/ ViewProducts
    \/ isEmpty(cart) /\ nAdds < MaxManyAdds /\ AddToCart(IntLine(1))
    \/ AnswerAddMore("N")
    \/ ViewCart
    \/ ViewOrders
    \/ AnswerCheckout("Y")
    \/ SelectPayment(IntLine(1))
    \/ Pay
    \/ AppendToOrders
    \/ AppendPastOrders
    \/ CheckoutClear

SpecMany == InitMem /\ [][NextMany]_vars

\* ============================================================== claims
\* What the claims expect, stated without the operators of the model.
SuccessMessage == "You have successfully checked out the products!"

ExpectedMethodName(choice) ==
    CASE choice = 1 -> "Cash"
      [] choice = 2 -> "Credit/Debit Card"
      [] choice = 3 -> "GCash"
      [] OTHER -> "no such method"

\* Sum of price times quantity over the lines.
LineSum(its) ==
    LET S[k \in 0..Len(its)] ==
            IF k = 0 THEN 0
            ELSE S[k - 1] + its[k].product.price * its[k].quantity
    IN  S[Len(its)]

\* The amount in cents a text denotes, or -1 if it is no decimal numeral
\* with at most two significant digits after the point.
DecimalCents(text) ==
    IF Len(text) # 1 \/ text[1].k # "num" THEN -1
    ELSE LET n == text[1]
             d(k) == IF k <= Len(n.f) THEN n.f[k] ELSE 0
         IN  IF \A k \in 3..Len(n.f) : n.f[k] = 0
             THEN n.i * 100 + d(1) * 10 + d(2)
             ELSE -1

IsHeader(line) == line # <<>> /\ line[1] = LogMarker

HeaderCount(lines) == Cardinality({i \in 1..Len(lines) : IsHeader(lines[i])})

LoggedCheckouts == SelectSeq(checkouts, LAMBDA c : c.logged)

AllLogged == \A i \in 1..Len(checkouts) : checkouts[i].logged

ValidChoices == \A i \in 1..Len(checkouts) : checkouts[i].choice \in 1..3

\* A product line as viewOrders of src/1.cpp shows it.
ShownLineMatches(shown, item) ==
    /\ shown.id = << Num(item.product.id, <<>>) >>
    /\ shown.name = << Lit(item.product.name) >>
    /\ DecimalCents(shown.price) = item.product.price
    /\ shown.qty = << Num(item.quantity, <<>>) >>

\* An order as viewOrders of src/1.cpp reads it back, against the checkout.
ShownFileOrderMatches(shown, c) ==
    /\ shown.orderId = c.id
    /\ shown.paymentMethod = << Lit(ExpectedMethodName(c.choice)) >>
    /\ Len(shown.lines) = Len(c.items)
    /\ \A j \in 1..Len(c.items) : ShownLineMatches(shown.lines[j], c.items[j])
    /\ Len(shown.total) = 2
    /\ shown.total[1] = TotalMarker
    /\ DecimalCents(<< shown.total[2] >>) = LineSum(c.items)

\* An order as Order::display of src/tempCodeRunnerFile.cpp shows it (whole
\* currency units), against the checkout.
ShownMemOrderMatches(shown, c) ==
    /\ shown.orderId = c.id
    /\ shown.paymentMethod = ExpectedMethodName(c.choice)
    /\ Len(shown.lines) = Len(c.items)
    /\ \A j \in 1..Len(c.items) :
          /\ shown.lines[j].id = c.items[j].product.id
          /\ shown.lines[j].name = c.items[j].product.name
          /\ shown.lines[j].price = c.items[j].product.price \div 100
          /\ shown.lines[j].qty = c.items[j].quantity
    /\ shown.total = LineSum(c.items) \div 100

ShownMatches(shown, cs) ==
    /\ Len(shown) = Len(cs)
    /\ \A i \in 1..Len(cs) :
          IF variant = "file" THEN ShownFileOrderMatches(shown[i], cs[i])
          ELSE ShownMemOrderMatches(shown[i], cs[i])

\* C1: a checkout confirmed with a valid payment method appends exactly one
\* order to the order log before control returns to the menu: the log grows
\* by one entry and the earlier entries stay in place, in both variants.
C1_CheckoutAppendsOneOrder ==
    [][ (pc = "append" /\ paymentChoice.value \in 1..3) =>
           IF variant = "mem"
           THEN /\ Len(orders') = Len(orders) + 1
                /\ SubSeq(orders', 1, Len(orders)) = orders
           ELSE /\ HeaderCount(file'.lines) = HeaderCount(file.lines) + 1
                /\ SubSeq(file'.lines, 1, Len(file.lines)) = file.lines ]_vars

\* C2: in the file-log variant a checkout whose append to orders.log fails
\* reports an error instead of success, and does not clear the cart.
C2_FailedAppendSurfaced ==
    [][ /\ (variant = "file" /\ pc' = "clear" /\ ~logFileOpen') => out' # SuccessMessage
        /\ (variant = "file" /\ pc = "clear" /\ ~logFileOpen) => cart' = cart ]_vars

\* C3: starting from an empty log, after k >= 1 successful checkouts 'view
\* orders' lists exactly those k orders, oldest first, each with the line
\* items and the total that were checked out, in both variants.
C3_ViewListsCheckouts ==
    (/\ out \in {"Order History", "Error: No orders found"}
     /\ checkouts # <<>>
     /\ ValidChoices
     /\ AllLogged)
    => (out = "Order History" /\ ShownMatches(viewed, checkouts))

\* C4: file-log variant round trip: every block written to orders.log at a
\* checkout is read back by viewOrders with the same order id, method name,
\* line items and total, also when the log holds several blocks.
C4_LogRoundTrip ==
    variant = "file" =>
        ShownMatches(ReadOrders(file.lines, 1, <<>>), LoggedCheckouts)

\* C5: a payment index outside 1..3 is handled as an input error in both
\* variants: a step from the payment prompt either goes on with an index in
\* 1..3, or returns to the menu with no strategy, the cart and the log as
\* they were.
C5_InvalidPaymentRejected ==
    [][ pc = "paymentPrompt" =>
           \/ /\ pc' = "pay"
              /\ ~paymentChoice'.fail
              /\ paymentChoice'.value \in 1..3
           \/ /\ pc' = "menu"
              /\ strategy' = NoStrategy
              /\ cart' = cart
              /\ orders' = orders
              /\ file' = file ]_vars

\* C6: after a successful checkout the cart is empty, and the cart is emptied
\* only once the order of that checkout is in the order log.
C6_ClearedAfterAppend ==
    [][ /\ pc = "clear" => isEmpty(cart')
        /\ (cart.items # <<>> /\ cart'.items = <<>>) =>
              /\ checkouts # <<>>
              /\ checkouts[Len(checkouts)].items = cart.items
              /\ IF variant = "mem"
                 THEN Len(orders) = Len(checkouts)
                 ELSE HeaderCount(file.lines) = Len(checkouts) ]_vars

\* The index of the k-th header line of the log.
HeaderIndex(lines, k) ==
    CHOOSE i \in 1..Len(lines) :
        /\ IsHeader(lines[i])
        /\ Cardinality({j \in 1..i : IsHeader(lines[j])}) = k

\* The k-th block of orders.log, read by the format of the log: the header,
\* one line per cart line, the total line, a blank line.
WrittenBlockMatches(lines, k, c) ==
    LET h == HeaderIndex(lines, k)
        n == Len(c.items)
    IN  /\ Len(lines) >= h + n + 2
        /\ lines[h] = << LogMarker >> \o c.id \o
                      << HasBeen, Lit(" successfully checked out and paid "), Using,
                         Lit(ExpectedMethodName(c.choice)), Dot >>
        /\ \A j \in 1..n :
              LET line == lines[h + j] IN
              /\ Len(line) = 7
              /\ line[1] = Num(c.items[j].product.id, <<>>)
              /\ line[2] = Tab
              /\ line[3] = Lit(c.items[j].product.name)
              /\ line[4] = Tab
              /\ DecimalCents(<< line[5] >>) = c.items[j].product.price
              /\ line[6] = Tab
              /\ line[7] = Num(c.items[j].quantity, <<>>)
        /\ Len(lines[h + n + 1]) = 2
        /\ lines[h + n + 1][1] = TotalMarker
        /\ DecimalCents(<< lines[h + n + 1][2] >>) = LineSum(c.items)
        /\ lines[h + n + 2] = <<>>

\* C7: the order a checkout records carries the display name of the chosen
\* payment method, a copy of the cart's lines as they were at checkout, in
\* cart order, and a total equal to the cart's total at checkout.
C7_RecordedOrder ==
    IF variant = "mem"
    THEN /\ Len(orders) = Len(checkouts)
         /\ \A i \in 1..Len(orders) :
               checkouts[i].choice \in 1..3 =>
                  /\ orders[i].paymentMethod = ExpectedMethodName(checkouts[i].choice)
                  /\ orders[i].itemCount = Len(checkouts[i].items)
                  /\ orders[i].items = checkouts[i].items
                  /\ orders[i].totalAmount = LineSum(checkouts[i].items)
    ELSE /\ HeaderCount(file.lines) = Len(LoggedCheckouts)
         /\ \A k \in 1..Len(LoggedCheckouts) :
               WrittenBlockMatches(file.lines, k, LoggedCheckouts[k])

\* The line of a product id in a cart, or 0.
LineOf(its, id) ==
    IF \E i \in 1..Len(its) : its[i].product.id = id
    THEN CHOOSE i \in 1..Len(its) : its[i].product.id = id
    ELSE 0

\* `after` is `before` with quantity q of the product added as the claim says.
AddedAs(before, after, product, q) ==
    LET i == LineOf(before.items, product.id) IN
    IF i # 0
    THEN /\ Len(after.items) = Len(before.items)
         /\ \A j \in 1..Len(before.items) :
               /\ after.items[j].product = before.items[j].product
               /\ after.items[j].quantity =
                     before.items[j].quantity + (IF j = i THEN q ELSE 0)
    ELSE after.items = before.items \o << [product |-> product, quantity |-> q] >>

QuantityOf(its, id) ==
    IF LineOf(its, id) = 0 THEN 0 ELSE its[LineOf(its, id)].quantity

\* C8: addProduct(product, quantity) adds the quantity to the line of
\* product.id if the cart has one, leaving the number and order of lines as
\* they are, and appends one new line otherwise; adding the same id twice
\* with q1 then q2 yields one line with quantity q1 + q2.
C8_AddProduct ==
    [][ /\ pc = "addPrompt" =>
           \A p \in 1..productCount : \A q1, q2 \in 1..MaxQuantity :
              LET once == addProduct(cart, products[p], q1)
                  twice == addProduct(once, products[p], q2)
              IN  /\ AddedAs(cart, once, products[p], q1)
                  /\ AddedAs(once, twice, products[p], q2)
                  /\ Cardinality({j \in 1..Len(twice.items) :
                                     twice.items[j].product.id = products[p].id}) = 1
                  /\ QuantityOf(twice.items, products[p].id) =
                        QuantityOf(cart.items, products[p].id) + q1 + q2
        /\ (pc = "addPrompt" /\ pc' = "addMorePrompt") =>
              \E p \in 1..productCount : AddedAs(cart, cart', products[p], 1) ]_vars

C8_Witness ==
    /\ pc = "addMorePrompt"
    /\ Len(cart.items) >= 2
    /\ \E j \in 1..Len(cart.items) : cart.items[j].quantity >= 2

\* C9: in every reachable state the cart holds at most one line per product
\* id.
C9_OneLinePerProduct ==
    \A i, j \in 1..Len(cart.items) :
        i # j => cart.items[i].product.id # cart.items[j].product.id

C9_Witness ==
    /\ checkouts # <<>>
    /\ pc = "addMorePrompt"
    /\ ~isEmpty(cart)

\* Sum over the catalog of price times the quantity in the cart: the order
\* of the lines plays no part in it.
CatalogSum(its) ==
    LET S[k \in 0..productCount] ==
            IF k = 0 THEN 0
            ELSE S[k - 1] + products[k].price * QuantityOf(its, products[k].id)
    IN  S[productCount]

LineOrders(n) ==
    {f \in [1..n -> 1..n] : \A a, b \in 1..n : a # b => f[a] # f[b]}

\* C10: on a non-empty cart getTotalAmount() returns the sum over the lines
\* of price times quantity, whatever the order of the lines.
C10_TotalIsSum ==
    ~isEmpty(cart) =>
        /\ getTotalAmount(cart) = [threw |-> FALSE, value |-> CatalogSum(cart.items)]
        /\ \A f \in LineOrders(Len(cart.items)) :
              getTotalAmount([cart EXCEPT !.items =
                                 [k \in 1..Len(cart.items) |-> cart.items[f[k]]]])
                 = getTotalAmount(cart)

C10_Witness ==
    /\ Len(cart.items) >= 3
    /\ \E j \in 1..Len(cart.items) : cart.items[j].quantity >= 2

\* C11: getTotalAmount() on a cart without lines throws EmptyCartException
\* instead of returning 0, on the cart as constructed and on a cart emptied
\* by clearCart(); it is a const member and yields only its result.
C11_EmptyCartTotalThrows ==
    \A c \in {NewCart, cart, clearCart(cart)} :
        c.items = <<>> => getTotalAmount(c) = [threw |-> TRUE, value |-> 0]

C11_Witness ==
    /\ pc = "menu"
    /\ checkouts # <<>>
    /\ cart.items = <<>>

\* The step taken is the menu step that read `c` as the choice.
MenuStep(c) == pc = "menu" /\ menuChoice' = c /\ now' = now

LogUnchanged ==
    /\ orders' = orders
    /\ file' = file
    /\ nextOrderId' = nextOrderId
    /\ checkouts' = checkouts

\* C12: choosing 'view cart / checkout' while the cart has no lines appends
\* no order, writes nothing to the log file, consumes no order id, tells the
\* user that the cart is empty and shows the menu again.
C12_EmptyCartCheckout ==
    [][ (MenuStep(IntLine(2)) /\ cart.items = <<>>) =>
            /\ LogUnchanged
            /\ cart' = cart
            /\ out' = "Your shopping cart is empty."
            /\ pc' = "menu" ]_vars

C12_Witness ==
    /\ out = "Your shopping cart is empty."
    /\ menuChoice = IntLine(2)
    /\ checkouts # <<>>

\* No order is on record: no checkout has completed (orders[] variant), or
\* orders.log is absent or holds no order block (file variant).
NoOrderOnRecord ==
    IF variant = "mem" THEN checkouts = <<>>
    ELSE ~file.exists \/ HeaderCount(file.lines) = 0

\* C13: 'view orders' on a log without orders fails with NoOrdersException,
\* which is reported and lists nothing: in the orders[] variant while no
\* checkout has completed, in the file variant when orders.log is absent and
\* when it exists without an order block.
C13_NoOrders ==
    [][ (MenuStep(IntLine(3)) /\ NoOrderOnRecord) =>
            /\ out' = "Error: No orders found"
            /\ viewed' = <<>>
            /\ pc' = "menu" ]_vars

C13_Witness ==
    /\ out = "Error: No orders found"
    /\ menuChoice = IntLine(3)
    /\ variant = "file"
    /\ file.exists

ErrorReports ==
    {"Error: Invalid input. Please enter a valid number.",
     "Error: Invalid menu choice. Please select 1-4.",
     "Error: Invalid product ID",
     "Error: Please enter Y or N.",
     "Error: Invalid payment method. Please select 1-3.",
     "Error: Shopping cart is empty",
     "Error: No orders found"}

\* C14: every error raised in a menu iteration is caught and reported within
\* it and the program goes on prompting; nothing the user enters crashes the
\* process, and only the menu choice 4 ends it.
C14_ErrorsAreCaught ==
    /\ pc # "crashed"
    /\ pc = "exited" => menuChoice = IntLine(4)
    /\ out \in ErrorReports => pc \in {"menu", "addPrompt"}

\* C15: an order once recorded keeps its id, payment method name, line items
\* and total through every later step (addProduct, clearCart, further
\* checkouts): entries of orders[] and lines of orders.log are only added.
C15_RecordedOrdersKept ==
    [][ /\ Len(orders') >= Len(orders)
        /\ \A i \in 1..Len(orders) :
              /\ orders'[i] = orders[i]
              /\ display(orders'[i]) = display(orders[i])
        /\ file.exists => file'.exists
        /\ Len(file'.lines) >= Len(file.lines)
        /\ SubSeq(file'.lines, 1, Len(file.lines)) = file.lines ]_vars

C15_Witness ==
    /\ variant = "mem"
    /\ Len(orders) >= 1
    /\ pc = "menu"
    /\ out = "none"
    /\ \E i \in 1..Len(cart.items) : \E j \in 1..Len(orders[1].items) :
          cart.items[i].product.id = orders[1].items[j].product.id

\* C16: in the orders[] variant the n-th checkout that reports success gets
\* order id n: ids start at 1, go up by one per recorded order, are not used
\* up by a declined or rejected checkout, and differ pairwise in the log.
C16_OrderIdsCount ==
    variant = "mem" =>
        /\ Len(orders) = Len(checkouts)
        /\ nextOrderId = Len(checkouts) + 1
        /\ \A i \in 1..Len(orders) : orders[i].orderId = i /\ checkouts[i].id = i
        /\ \A i, j \in 1..Len(orders) : i # j => orders[i].orderId # orders[j].orderId

\* A payment prompt answered with text, after one order was recorded.
C16_Witness ==
    /\ variant = "mem"
    /\ Len(orders) = 1
    /\ pc = "menu"
    /\ out = "Error: Invalid input. Please enter a valid number."
    /\ menuChoice = Unread
    /\ productId = Unread
    /\ cart.items # <<>>

\* C17: a product id that is a number but not in the catalog (1..5) is
\* reported as an invalid product id; the cart and the order log stay as
\* they are and the program goes on prompting.
C17_InvalidProductId ==
    [][ (pc = "addPrompt" /\ ~productId'.fail /\ productId'.value \notin 1..productCount) =>
            /\ cart' = cart
            /\ nAdds' = nAdds
            /\ LogUnchanged
            /\ out' = "Error: Invalid product ID"
            /\ pc' \in {"addPrompt", "menu"}
            /\ exitCode' = Running ]_vars

C17_Witness ==
    /\ pc = "addPrompt"
    /\ productId = IntLine(0)
    /\ out = "Error: Invalid product ID"
    /\ cart.items # <<>>
    /\ checkouts # <<>>

\* The orders.log that src/1.cpp writes for the checkouts cs, from no file.
FileLinesOf(cs) ==
    LET F[k \in 0..Len(cs)] ==
            IF k = 0 THEN <<>>
            ELSE F[k - 1] \o
                 LogBlock(MakeOrderId(now), getMethodName(SelectStrategy(cs[k].choice)),
                          [items |-> cs[k].items, capacity |-> InitialCapacity],
                          cs[k].total)
    IN  F[Len(cs)]

\* What 'view orders' of src/1.cpp yields after the checkouts cs.
FileViewOf(cs) == viewOrdersFile([exists |-> cs # <<>>, lines |-> FileLinesOf(cs)])

\* What 'view orders' of src/tempCodeRunnerFile.cpp yields after the
\* checkouts cs.
MemViewOf(cs) ==
    IF cs = <<>> THEN [threw |-> TRUE, shown |-> <<>>]
    ELSE [threw |-> FALSE,
          shown |-> [k \in 1..Len(cs) |->
                        display(Order(k, getMethodName(SelectStrategy(cs[k].choice)),
                                      cs[k].items, Len(cs[k].items), cs[k].total))]]

\* The same line item, as src/1.cpp lists it and as Order::display lists it
\* (the price in whole currency units).
SameShownLine(fl, ml) ==
    /\ fl.id = << Num(ml.id, <<>>) >>
    /\ fl.name = << Lit(ml.name) >>
    /\ DecimalCents(fl.price) \div 100 = ml.price
    /\ fl.qty = << Num(ml.qty, <<>>) >>

SameView(fv, mv) ==
    /\ fv.threw = mv.threw
    /\ ~fv.threw =>
          /\ Len(fv.shown) = Len(mv.shown)
          /\ \A i \in 1..Len(fv.shown) :
                /\ Len(fv.shown[i].lines) = Len(mv.shown[i].lines)
                /\ \A j \in 1..Len(fv.shown[i].lines) :
                      SameShownLine(fv.shown[i].lines[j], mv.shown[i].lines[j])

\* C18: for the same sequence of successful checkouts 'view orders' of the
\* file variant and of the orders[] variant both fail with NoOrders, or both
\* list the same number of orders with the same line items in the same
\* order.  What the running variant has listed is compared with what the
\* other variant lists after the same checkouts.
C18_SameOrdersShown ==
    (menuChoice = IntLine(3) /\ pc = "menu" /\ AllLogged /\ ValidChoices) =>
        LET here == [threw |-> out = "Error: No orders found", shown |-> viewed]
        IN  IF variant = "file" THEN SameView(here, MemViewOf(checkouts))
            ELSE SameView(FileViewOf(checkouts), here)

\* C19: at the main menu, whatever happened before, choice 4 can be taken;
\* it leaves the menu loop and main returns 0, after which the program takes
\* no further step.
C19_ExitReturnsZero ==
    [][ /\ pc # "exited"
        /\ pc = "menu" => ENABLED Exit
        /\ MenuStep(IntLine(4)) =>
              /\ pc' = "exited"
              /\ exitCode' = 0
              /\ out' = "Thank you for shopping with us!"
        /\ exitCode' # Running => (pc' = "exited" /\ menuChoice' = IntLine(4)) ]_vars

C19_Witness ==
    /\ pc = "exited"
    /\ exitCode = 0
    /\ checkouts # <<>>
    /\ cart.items # <<>>

\* Every line of `before` is in `after` with at least its quantity.
LinesKept(before, after) ==
    \A i \in 1..Len(before.items) :
        \E j \in 1..Len(after.items) :
            /\ after.items[j].product.id = before.items[i].product.id
            /\ after.items[j].quantity >= before.items[i].quantity

\* The checkout in progress has put its order on record.
OrderJustRecorded ==
    IF variant = "mem"
    THEN orders # <<>> /\ orders[Len(orders)].items = cart.items
    ELSE logFileOpen /\ HeaderCount(file.lines) >= 1

\* C20: a cart line is removed, or its quantity lowered, by no step other
\* than clearCart, and clearCart runs only right after a checkout has put
\* its order on record; between checkouts the cart only grows.
C20_LinesRemovedOnlyByClear ==
    [][ /\ ~LinesKept(cart, cart') => (pc = "clear" /\ cart' = clearCart(cart))
        /\ pc = "clear" => OrderJustRecorded ]_vars

\* The order id on the k-th header line of the log: the text between the
\* marker and " has been".
LoggedOrderId(lines, k) ==
    LET line == lines[HeaderIndex(lines, k)]
    IN  SubSeq(line, 2, Find(line, HasBeen, 1) - 1)

\* C21: in the file variant the order id is "ORD" followed by the clock's
\* seconds at the checkout, in the history and on the header line written to
\* orders.log, so checkouts made within the same second carry the same id.
C21_OrderIdIsClockSecond ==
    variant = "file" =>
        /\ \A i \in 1..Len(checkouts) :
              checkouts[i].id = << Lit("ORD"), Num(checkouts[i].at, <<>>) >>
        /\ \A i, j \in 1..Len(checkouts) :
              checkouts[i].at = checkouts[j].at => checkouts[i].id = checkouts[j].id
        /\ HeaderCount(file.lines) = Len(LoggedCheckouts)
        /\ \A k \in 1..Len(LoggedCheckouts) :
              LoggedOrderId(file.lines, k) =
                 << Lit("ORD"), Num(LoggedCheckouts[k].at, <<>>) >>

\* Two orders in orders.log with one and the same order id.
C21_Witness ==
    /\ variant = "file"
    /\ pc = "menu"
    /\ HeaderCount(file.lines) = 2
    /\ LoggedOrderId(file.lines, 1) = LoggedOrderId(file.lines, 2)

\* C22: in the orders[] variant every checkout stores its order at an index
\* inside orders[] (0..99), and no more than 100 orders are ever stored,
\* however many checkouts a run makes.
C22_OrdersWithinCapacity ==
    [][ /\ (variant = "mem" /\ pc = "append") => orderCount \in 0..(OrdersCapacity - 1)
        /\ Len(orders') <= OrdersCapacity ]_vars

\* The step rejects the product id: `continue` takes it to the test of
\* `while (addMore == 'Y')` without a Y/N answer read in this iteration.
RejectedIdStep == pc = "addPrompt" /\ pc' # "addMorePrompt"

\* C23: the loop condition of the add-product loop is never evaluated on an
\* addMore that has no value yet, and after a rejected product id it is
\* never decided by the answer of an earlier iteration.
C23_AddMoreAssignedBeforeTest ==
    [][ /\ RejectedIdStep => addMore # Undef
        /\ RejectedIdStep => addMore # "Y" ]_vars

\* Sum of the quantities of the lines.
QuantitySum(its) ==
    LET S[k \in 0..Len(its)] == IF k = 0 THEN 0 ELSE S[k - 1] + its[k].quantity
    IN  S[Len(its)]

\* Sum of the quantities over the orders on record, orders[0 .. orderCount-1].
RecordedQuantity ==
    LET n == IF orderCount < 0 THEN 0 ELSE orderCount
        S[k \in 0..n] == IF k = 0 THEN 0 ELSE S[k - 1] + QuantitySum(orders[k].items)
    IN  S[n]

\* C24: in the orders[] variant, whenever main is back at the menu, the
\* number of addProduct calls made so far equals the quantities in the cart
\* plus the quantities in all recorded orders.
C24_ItemsConserved ==
    (variant = "mem" /\ pc = "menu") =>
        nAdds = QuantitySum(cart.items) + RecordedQuantity

\* The step is a successful 'add product'.
SuccessfulAddStep ==
    /\ pc = "addPrompt"
    /\ pc' = "addMorePrompt"
    /\ ~productId'.fail
    /\ productId'.value \in 1..productCount

\* The step belongs to a checkout confirmed with 'Y' and paid with one of
\* the three payment methods.
ValidCheckoutStep ==
    /\ pc \in {"append", "clear"}
    /\ paymentChoice.value \in 1..3

\* C25: the cart's lines change only by a successful 'add product' and are
\* emptied only by a confirmed checkout with a valid payment method, and
\* only such a checkout changes the order log; listing products, showing the
\* cart, declining the checkout, viewing orders and every rejected input
\* leave the cart and the log as they are, held by the running program.
C25_OnlyAddAndCheckoutChange ==
    [][ /\ cart'.items # cart.items =>
              \/ SuccessfulAddStep
              \/ ValidCheckoutStep /\ pc = "clear" /\ cart'.items = <<>>
        /\ (orders' # orders \/ orderCount' # orderCount \/ file' # file) =>
              ValidCheckoutStep /\ pc = "append"
        /\ pc' # "crashed" ]_vars

====
